---- MODULE Spec2Model ----
(***************************************************************************)
(* Model of scripts/xml_extraction.py: the IRS 990 extraction engine.      *)
(*                                                                         *)
(* An XML document is a tree of elements (tag, text, children).  Python's  *)
(* None is the empty tuple, a Python string s is the one-element tuple     *)
(* <<s>>, so that None and the empty string '' stay different values.      *)
(* A call that can raise returns [exc, val]: exc is "none" or the name of  *)
(* the exception that propagates out of the call.                          *)
(***************************************************************************)
EXTENDS Integers, Sequences, FiniteSets, TLC

VARIABLES
    pc,         \* where the script is
    xml_root,   \* the root of the document parsed last
    result,     \* what the extractor applied last returned (SpecExtract)
    nzips,      \* number of archives found in raw_zips_dir
    zi,         \* the archive being processed, 1..nzips (its year and part)
    namelist,   \* zf.namelist() of that archive
    i,          \* number of members of namelist already extracted
    data_tree,  \* the composite records of the archive
    flat,       \* returns, officers, grants as export_to_csv built them
    tmp,        \* the files of the tmp directory, by name
    csv_dir,    \* the archives whose csv zip has been written
    json_dir,   \* the archives whose json zip has been written
    err         \* the exception that ended the script

vars == <<pc, xml_root, result, nzips, zi, namelist, i, data_tree, flat, tmp,
          csv_dir, json_dir, err>>

mainvars == <<nzips, zi, namelist, i, data_tree, flat, tmp, csv_dir, json_dir, err>>

\* ------------------------------------------------------------------ bounds
MaxChildren == 2
MaxPerVariant == 2
MaxGrants == 2
MaxZips == 2
MaxMembers == 2

\* ------------------------------------------------------- Python values
None == <<>>
Str(s) == <<s>>

Ok(v) == [exc |-> "none", val |-> v]
Raise(e) == [exc |-> e, val |-> None]

Range(s) == {s[k] : k \in 1..Len(s)}

RECURSIVE Concat(_)
Concat(ss) == IF ss = <<>> THEN <<>> ELSE Head(ss) \o Concat(Tail(ss))

\* str.join with a single-space separator
RECURSIVE JoinSp(_)
JoinSp(strs) ==
    IF strs = <<>> THEN ""
    ELSE IF Len(strs) = 1 THEN strs[1]
    ELSE strs[1] \o " " \o JoinSp(Tail(strs))

\* ------------------------------------------------ ElementTree elements
Element(tag, text, children) == [tag |-> tag, text |-> text, children |-> children]

Leaf(tag, text) == Element(tag, text, <<>>)

\* Element.iter() without the element itself: all descendants, document order
RECURSIVE iter(_)
iter(e) == Concat([k \in 1..Len(e.children) |-> <<e.children[k]>> \o iter(e.children[k])])

Match(e, step) == step = "*" \/ e.tag = step

ChildStep(elems, step) ==
    Concat([k \in 1..Len(elems) |-> SelectSeq(elems[k].children, LAMBDA c : Match(c, step))])

RECURSIVE Steps(_, _)
Steps(elems, steps) ==
    IF steps = <<>> THEN elems ELSE Steps(ChildStep(elems, Head(steps)), Tail(steps))

\* A path './/A/B' is [deep |-> TRUE, steps |-> <<"A", "B">>]; 'A' is
\* [deep |-> FALSE, steps |-> <<"A">>].  Every document uses the one
\* namespace of ns, so tags are compared by their local names.
Deep(steps) == [deep |-> TRUE, steps |-> steps]
Child(steps) == [deep |-> FALSE, steps |-> steps]

Matches(e, path) ==
    LET first == IF path.deep
                 THEN SelectSeq(iter(e), LAMBDA d : Match(d, Head(path.steps)))
                 ELSE SelectSeq(e.children, LAMBDA c : Match(c, Head(path.steps)))
    IN Steps(first, Tail(path.steps))

\* What find / findall hand to safe_text: None, one Element, or a list
NoElement == [kind |-> "None", elems |-> <<>>]
OneElement(e) == [kind |-> "Element", elems |-> <<e>>]
ElementList(es) == [kind |-> "list", elems |-> es]

findall(e, path) == ElementList(Matches(e, path))

find(e, path) ==
    LET all == Matches(e, path)
    IN IF all = <<>> THEN NoElement ELSE OneElement(all[1])

\* ------------------------------------------------------------ Utilities
safe_text(elements) ==
    IF elements.kind = "None" THEN Ok(Str(""))
    ELSE IF elements.kind = "Element" THEN Ok(elements.elems[1].text)
    ELSE IF \E k \in 1..Len(elements.elems) : elements.elems[k].text = None
         THEN Raise("TypeError")
         ELSE Ok(Str(JoinSp([k \in 1..Len(elements.elems) |-> elements.elems[k].text[1]])))

RECURSIVE coalesce(_)
coalesce(values) ==
    IF values = <<>> THEN None
    ELSE IF Head(values) # None THEN Head(values)
    ELSE coalesce(Tail(values))

\* The exception that leaves a sequence of calls evaluated left to right
RECURSIVE Raised(_)
Raised(calls) ==
    IF calls = <<>> THEN "none"
    ELSE IF Head(calls).exc # "none" THEN Head(calls).exc
    ELSE Raised(Tail(calls))

Vals(calls) == [k \in 1..Len(calls) |-> calls[k].val]

\* ------------------------------------------------------------ parse_return
parse_return(root, fname) ==
    LET rt == <<safe_text(find(root, Deep(<<"ReturnTypeCd">>))),
                safe_text(find(root, Deep(<<"ReturnType">>)))>>
        ein == <<safe_text(find(root, Deep(<<"Filer", "EIN">>)))>>
        bn == <<safe_text(find(root, Deep(<<"Filer", "BusinessName", "*">>))),
                safe_text(find(root, Deep(<<"Filer", "Name", "*">>)))>>
        ba == <<safe_text(findall(root, Deep(<<"Filer", "USAddress", "*">>)))>>
        pf == <<safe_text(find(root, Deep(<<"PreparerFirmName", "*">>))),
                safe_text(find(root, Deep(<<"PreparerFirmBusinessName", "*">>)))>>
        pa == <<safe_text(findall(root, Deep(<<"PreparerUSAddress", "*">>))),
                safe_text(findall(root, Deep(<<"PreparerFirmUSAddress", "*">>)))>>
        ty == <<safe_text(find(root, Deep(<<"TaxYr">>))),
                safe_text(find(root, Deep(<<"TaxYear">>)))>>
        exc == Raised(rt \o ein \o bn \o ba \o pf \o pa \o ty)
    IN IF exc # "none" THEN Raise(exc)
       ELSE Ok([src_fname |-> Str(fname),
                return_type |-> coalesce(Vals(rt)),
                ein |-> ein[1].val,
                business_name |-> coalesce(Vals(bn)),
                business_address |-> ba[1].val,
                preparer_firm |-> coalesce(Vals(pf)),
                preparer_address |-> coalesce(Vals(pa)),
                tax_year |-> coalesce(Vals(ty))])

\* ---------------------------------------------------------- parse_officers
\* The four tag-name variants, in the order they are scanned
OfficerVariants == <<"OfficerDirTrstKeyEmplGrp", "OfficerDirectorTrusteeEmplGrp",
                     "OfcrDirTrusteesOrKeyEmployee", "Form990PartVIISectionAGrp">>

ScanOfficers(root) ==
    Concat([v \in 1..Len(OfficerVariants) |-> Matches(root, Deep(<<OfficerVariants[v]>>))])

\* The dictionary built for one repeated officer structure
OfficerFields(officer) ==
    LET nm == <<safe_text(find(officer, Child(<<"PersonNm">>))),
                safe_text(findall(officer, Deep(<<"BusinessName", "*">>))),
                safe_text(find(officer, Child(<<"PersonName">>)))>>
        tt == <<safe_text(find(officer, Child(<<"TitleTxt">>))),
                safe_text(find(officer, Child(<<"Title">>)))>>
        ad == <<safe_text(findall(officer, Deep(<<"USAddress", "*">>)))>>
        exc == Raised(nm \o tt \o ad)
    IN IF exc # "none" THEN Raise(exc)
       ELSE Ok([name |-> coalesce(Vals(nm)),
                title |-> coalesce(Vals(tt)),
                address |-> ad[1].val])

\* The header-level officer: BusinessOfficerGrp, else Officer, else None
HeaderOfficer(root) ==
    LET officer == find(root, Deep(<<"BusinessOfficerGrp">>))
    IN IF officer.kind = "None" THEN find(root, Deep(<<"Officer">>)) ELSE officer

\* The dictionary built from the header-level officer; a lookup on None raises
HeaderFields(officer) ==
    IF officer.kind = "None" THEN Raise("AttributeError")
    ELSE LET o == officer.elems[1]
             nm == <<safe_text(find(o, Child(<<"PersonNm">>))),
                     safe_text(find(o, Child(<<"Name">>)))>>
             tt == <<safe_text(find(o, Child(<<"PersonTitleTxt">>))),
                     safe_text(find(o, Child(<<"Title">>)))>>
         IN Ok([name |-> coalesce(Vals(nm)),
                title |-> coalesce(Vals(tt)),
                address |-> Str("")])

\* variant: the header-level branch runs whatever the scan found
UseHeader_always(records) == TRUE

\* 'if not records': the header-level officer is used
UseHeader(records) == records = <<>>

\* [exc, val, fallback]: fallback tells whether the header-level branch ran
parse_officers(root, fname) ==
    LET officers == ScanOfficers(root)
        built == [k \in 1..Len(officers) |-> OfficerFields(officers[k])]
        exc == Raised(built)
        records == Vals(built)
    IN IF exc # "none" THEN [exc |-> exc, val |-> None, fallback |-> FALSE]
       ELSE IF UseHeader(records)
            THEN LET h == HeaderFields(HeaderOfficer(root))
                 IN IF h.exc # "none"
                    THEN [exc |-> h.exc, val |-> None, fallback |-> TRUE]
                    ELSE [exc |-> "none", val |-> records \o <<h.val>>, fallback |-> TRUE]
            ELSE [exc |-> "none", val |-> records, fallback |-> FALSE]

\* ------------------------------------------------------------ parse_grants
GrantFields(grant) ==
    LET rn == <<safe_text(find(grant, Child(<<"RecipientPersonNm">>))),
                safe_text(findall(grant, Deep(<<"RecipientBusinessName", "*">>)))>>
        ra == <<safe_text(findall(grant, Deep(<<"RecipientUSAddress", "*">>)))>>
        pu == <<safe_text(find(grant, Deep(<<"GrantOrContributionPurposeTxt">>)))>>
        am == <<safe_text(find(grant, Child(<<"Amt">>)))>>
        exc == Raised(rn \o ra \o pu \o am)
    IN IF exc # "none" THEN Raise(exc)
       ELSE Ok([recipient_name |-> coalesce(Vals(rn)),
                recipient_address |-> ra[1].val,
                purpose |-> pu[1].val,
                amount |-> am[1].val])

parse_grants(root, fname) ==
    LET grants == Matches(root, Deep(<<"GrantOrContributionPdDurYrGrp">>))
        built == [k \in 1..Len(grants) |-> GrantFields(grants[k])]
        exc == Raised(built)
    IN IF exc # "none" THEN Raise(exc) ELSE Ok(Vals(built))

\* ------------------------------------------------------------- return_tree
\* The composite record: the header fields plus the keys officers and grants
Composite(tree, officers, grants) ==
    IF Raised(<<tree, officers, grants>>) # "none"
    THEN Raise(Raised(<<tree, officers, grants>>))
    ELSE Ok([k \in DOMAIN tree.val \cup {"officers", "grants"} |->
                IF k = "officers" THEN officers.val
                ELSE IF k = "grants" THEN grants.val
                ELSE tree.val[k]])

return_tree(root, fname) ==
    Composite(parse_return(root, fname), parse_officers(root, fname),
              parse_grants(root, fname))

\* ----------------------------------------------------------- export_to_csv
\* variant: the key is taken from the wrong field of r
Stamp_ein(o, r) ==
    [k \in DOMAIN o \cup {"src_fname"} |-> IF k = "src_fname" THEN r.ein ELSE o[k]]

\* o['src_fname'] = r['src_fname']: the key is added to, or overwritten in, o
Stamp(o, r) ==
    [k \in DOMAIN o \cup {"src_fname"} |-> IF k = "src_fname" THEN r.src_fname ELSE o[k]]

\* variant: a record equal to one already collected is skipped
Extend_dedup(list, o) == IF o \in Range(list) THEN list ELSE Append(list, o)

\* officers += [o]
Extend(list, o) == Append(list, o)

\* variant: a record that already carries src_fname is skipped
Collect_unstamped_only(list, o, r) ==
    IF "src_fname" \in DOMAIN o THEN list ELSE Extend(list, Stamp(o, r))

\* One round of an inner loop: o is stamped, then appended to the collection
Collect(list, o, r) == Extend(list, Stamp(o, r))

RECURSIVE CollectAll(_, _, _)
CollectAll(list, nested, r) ==
    IF nested = <<>> THEN list
    ELSE CollectAll(Collect(list, Head(nested), r), Tail(nested), r)

\* The nested dictionaries are the ones data_tree holds: stamping them
\* changes the composite record r
Stamped(r) ==
    [r EXCEPT !.officers = [k \in 1..Len(@) |-> Stamp(@[k], r)],
              !.grants = [k \in 1..Len(@) |-> Stamp(@[k], r)]]

\* The outer loop over returns: the officer (grant) collection so far
RECURSIVE FlatNested(_, _, _)
FlatNested(list, returns, key) ==
    IF returns = <<>> THEN list
    ELSE FlatNested(CollectAll(list, Head(returns)[key], Head(returns)), Tail(returns), key)

\* pd.DataFrame(returns) without the columns officers and grants
Strip(r) == [k \in DOMAIN r \ {"officers", "grants"} |-> r[k]]

\* to_csv: a missing value is written as the empty string
CsvCell(v) == IF v = None THEN "" ELSE v[1]
CsvRows(records) ==
    [n \in 1..Len(records) |-> [k \in DOMAIN records[n] |-> CsvCell(records[n][k])]]

\* [exc, flat, tree, files]: the three collections, data_tree as the call
\* leaves it, and the csv files it writes.  del df['officers'] raises
\* KeyError on the column-less frame of an empty batch; nothing is written
\* before it.
export_to_csv(tree) ==
    LET returns == tree
        officers == FlatNested(<<>>, returns, "officers")
        grants == FlatNested(<<>>, returns, "grants")
        after == [n \in 1..Len(tree) |-> Stamped(tree[n])]
        rows == [n \in 1..Len(after) |-> Strip(after[n])]
    IN IF returns = <<>>
       THEN [exc |-> "KeyError", flat |-> None, tree |-> after, files |-> <<>>]
       ELSE [exc |-> "none",
             flat |-> [returns |-> rows, officers |-> officers, grants |-> grants],
             tree |-> after,
             files |-> [f \in {"returns.csv", "officers.csv", "grants.csv"} |->
                          IF f = "returns.csv" THEN CsvRows(rows)
                          ELSE IF f = "officers.csv" THEN CsvRows(officers)
                          ELSE CsvRows(grants)]]

\* A file system directory after 'files' have been written into it
Written(dir, files) ==
    [f \in DOMAIN dir \cup DOMAIN files |-> IF f \in DOMAIN files THEN files[f] ELSE dir[f]]

\* ------------------------------------------------------ input documents
\* Documents are built from a profile that says, element by element, whether
\* it is missing, present without text, or present with text, and how many
\* sub-elements a joined element has.
Num == <<"1", "2", "3", "4", "5", "6", "7", "8", "9", "10", "11", "12", "13", "14", "15", "16">>

NameLineTags == <<"BusinessNameLine1Txt", "BusinessNameLine2Txt", "BusinessNameLine3Txt">>
AddressLineTags == <<"AddressLine1Txt", "AddressLine2Txt", "CityNm">>
NameLines == <<"Acme", "Holdings", "Trust">>
AddressLines == <<"123 Main St", "Suite 4", "Springfield">>

ScalarOpts == {"absent", "empty", "text"}
ListOpts == {[n |-> n, nulltail |-> b] : n \in 0..MaxChildren, b \in BOOLEAN} \
            {[n |-> 0, nulltail |-> TRUE]}

\* zero or one element carrying a text
Scalar(tag, opt, text) ==
    IF opt = "absent" THEN <<>>
    ELSE <<Leaf(tag, IF opt = "empty" THEN None ELSE Str(text))>>

\* zero or one element carrying opt.n sub-elements, the last without text
\* when opt.nulltail
Lines(tag, opt, linetags, prefix, texts) ==
    IF opt.n = 0 THEN <<>>
    ELSE <<Element(tag, None,
             [k \in 1..opt.n |->
                Leaf(linetags[k],
                     IF opt.nulltail /\ k = opt.n THEN None
                     ELSE Str(prefix \o texts[k]))])>>

HeaderBase(b) ==
    LET l == [n |-> IF b = "absent" THEN 0 ELSE 1, nulltail |-> FALSE]
    IN [rtcd |-> b, rt |-> b, tyr |-> b, tyear |-> b, ein |-> b,
        bn |-> l, nm |-> l, addr |-> l, pfn |-> l, pfbn |-> l, pua |-> l, pfua |-> l]

\* A base header with one coalesced field's pair of candidates varied freely
HeaderProfiles ==
    UNION {
      {[HeaderBase(b) EXCEPT !.rtcd = x, !.rt = y] : x \in ScalarOpts, y \in ScalarOpts}
      \cup {[HeaderBase(b) EXCEPT !.tyr = x, !.tyear = y] : x \in ScalarOpts, y \in ScalarOpts}
      \cup {[HeaderBase(b) EXCEPT !.ein = x] : x \in ScalarOpts}
      \cup {[HeaderBase(b) EXCEPT !.bn = x, !.nm = y] : x \in ListOpts, y \in ListOpts}
      \cup {[HeaderBase(b) EXCEPT !.pfn = x, !.pfbn = y] : x \in ListOpts, y \in ListOpts}
      \cup {[HeaderBase(b) EXCEPT !.pua = x, !.pfua = y] : x \in ListOpts, y \in ListOpts}
      \cup {[HeaderBase(b) EXCEPT !.addr = x] : x \in ListOpts}
      : b \in {"absent", "text"}}

OfficerKinds == {"person", "legacy", "business", "emptynm", "bare", "nulladdr", "same"}
HeaderOfficerOpts == {"absent", "new", "legacy", "bare"}
GrantKinds == {"person", "business", "bare", "nulladdr"}

\* The j-th repeated officer structure of a document
OfficerGrp(tag, kind, j) ==
    LET full == [n |-> 2, nulltail |-> FALSE]
        null == [n |-> 2, nulltail |-> TRUE]
    IN Element(tag, None,
        CASE kind = "person" ->
               <<Leaf("PersonNm", Str("Officer " \o Num[j])),
                 Leaf("TitleTxt", Str("Title " \o Num[j]))>>
               \o Lines("USAddress", full, AddressLineTags, Num[j] \o " ", AddressLines)
          [] kind = "legacy" ->
               <<Leaf("PersonName", Str("Officer " \o Num[j])),
                 Leaf("Title", Str("Title " \o Num[j]))>>
          [] kind = "business" ->
               Lines("BusinessName", full, NameLineTags, Num[j] \o " ", NameLines)
               \o <<Leaf("TitleTxt", Str("Title " \o Num[j]))>>
          [] kind = "emptynm" ->
               <<Leaf("PersonNm", None)>>
               \o Lines("BusinessName", full, NameLineTags, Num[j] \o " ", NameLines)
               \o <<Leaf("PersonName", Str("Officer " \o Num[j])), Leaf("TitleTxt", None),
                    Leaf("Title", Str("Title " \o Num[j]))>>
          [] kind = "bare" -> <<>>
          [] kind = "nulladdr" ->
               <<Leaf("PersonNm", Str("Officer " \o Num[j]))>>
               \o Lines("USAddress", null, AddressLineTags, Num[j] \o " ", AddressLines)
          [] kind = "same" ->
               <<Leaf("PersonNm", Str("John Roe")), Leaf("TitleTxt", Str("Director"))>>)

HeaderOfficerGrp(tag, opt) ==
    CASE opt = "absent" -> <<>>
      [] opt = "new" -> <<Element(tag, None, <<Leaf("PersonNm", Str("Jane Doe")),
                                                Leaf("PersonTitleTxt", Str("CFO"))>>)>>
      [] opt = "legacy" -> <<Element(tag, None, <<Leaf("Name", Str("Jane Doe")),
                                                   Leaf("Title", Str("CFO"))>>)>>
      [] opt = "bare" -> <<Element(tag, None, <<>>)>>

GrantGrp(kind, j) ==
    LET full == [n |-> 2, nulltail |-> FALSE]
        null == [n |-> 2, nulltail |-> TRUE]
    IN Element("GrantOrContributionPdDurYrGrp", None,
        CASE kind = "person" ->
               <<Leaf("RecipientPersonNm", Str("Recipient " \o Num[j]))>>
               \o Lines("RecipientUSAddress", full, AddressLineTags, Num[j] \o " ", AddressLines)
               \o <<Leaf("GrantOrContributionPurposeTxt", Str("General support")),
                    Leaf("Amt", Str(Num[j] \o "000"))>>
          [] kind = "business" ->
               <<Element("RecipientBusinessName", None,
                    <<Leaf("BusinessNameLine1Txt", Str("Fund " \o Num[j]))>>),
                 Leaf("Amt", Str("500"))>>
          [] kind = "bare" -> <<>>
          [] kind = "nulladdr" ->
               Lines("RecipientUSAddress", null, AddressLineTags, Num[j] \o " ", AddressLines))

\* counts[v] structures of variant v, numbered through in document order
OfficerGrps(counts, kind) ==
    LET before(v) == IF v = 1 THEN 0
                     ELSE IF v = 2 THEN counts[1]
                     ELSE IF v = 3 THEN counts[1] + counts[2]
                     ELSE counts[1] + counts[2] + counts[3]
    IN Concat([v \in 1..4 |->
                 [k \in 1..counts[v] |-> OfficerGrp(OfficerVariants[v], kind, before(v) + k)]])

BodyProfile(counts, kind, bog, off, ngrants, gkind) ==
    [counts |-> counts, kind |-> kind, bog |-> bog, off |-> off,
     ngrants |-> ngrants, gkind |-> gkind]

Document(h, b) ==
    Element("Return", None,
      <<Element("ReturnHeader", None,
          Scalar("ReturnTypeCd", h.rtcd, "990PF")
          \o Scalar("ReturnType", h.rt, "990")
          \o Scalar("TaxYr", h.tyr, "2019")
          \o Scalar("TaxYear", h.tyear, "2012")
          \o <<Element("Filer", None,
                 Scalar("EIN", h.ein, "123456789")
                 \o Lines("BusinessName", h.bn, NameLineTags, "", NameLines)
                 \o Lines("Name", h.nm, NameLineTags, "Old ", NameLines)
                 \o Lines("USAddress", h.addr, AddressLineTags, "", AddressLines))>>
          \o HeaderOfficerGrp("BusinessOfficerGrp", b.bog)
          \o HeaderOfficerGrp("Officer", b.off)
          \o <<Element("PreparerFirmGrp", None,
                 Lines("PreparerFirmName", h.pfn, NameLineTags, "Firm ", NameLines)
                 \o Lines("PreparerFirmBusinessName", h.pfbn, NameLineTags, "Old Firm ", NameLines)
                 \o Lines("PreparerUSAddress", h.pua, AddressLineTags, "Firm ", AddressLines)
                 \o Lines("PreparerFirmUSAddress", h.pfua, AddressLineTags, "Old Firm ", AddressLines))>>),
        Element("ReturnData", None,
          OfficerGrps(b.counts, b.kind)
          \o [k \in 1..b.ngrants |-> GrantGrp(b.gkind, k)])>>)

DefaultBody == BodyProfile(<<0, 0, 0, 0>>, "person", "new", "absent", 0, "person")

HeaderDocs == {Document(h, DefaultBody) : h \in HeaderProfiles}

OfficerDocs ==
    {Document(HeaderBase("text"), BodyProfile(c, k, bog, off, 0, "person")) :
        c \in [1..4 -> 0..MaxPerVariant], k \in OfficerKinds,
        bog \in HeaderOfficerOpts, off \in HeaderOfficerOpts}

GrantDocs ==
    {Document(HeaderBase("text"), BodyProfile(<<0, 0, 0, 0>>, "person", "new", "absent", n, k)) :
        n \in 0..MaxGrants, k \in GrantKinds}

\* ------------------------------------------------- the extractors, applied
InitExtract ==
    /\ pc = "loaded"
    /\ xml_root \in HeaderDocs \cup OfficerDocs \cup GrantDocs
    /\ result = Ok(None)
    /\ nzips = 0 /\ zi = 0 /\ namelist = <<>> /\ i = 0 /\ data_tree = <<>>
    /\ flat = None /\ tmp = <<>> /\ csv_dir = {} /\ json_dir = {} /\ err = "none"

ParseReturn ==
    /\ pc = "loaded"
    /\ result' = parse_return(xml_root, "a.xml")
    /\ pc' = "parse_return"
    /\ UNCHANGED <<xml_root, mainvars>>

ParseOfficers ==
    /\ pc = "loaded"
    /\ result' = parse_officers(xml_root, "a.xml")
    /\ pc' = "parse_officers"
    /\ UNCHANGED <<xml_root, mainvars>>

ParseGrants ==
    /\ pc = "loaded"
    /\ result' = parse_grants(xml_root, "a.xml")
    /\ pc' = "parse_grants"
    /\ UNCHANGED <<xml_root, mainvars>>

NextExtract == ParseReturn \/ ParseOfficers \/ ParseGrants

SpecExtract == InitExtract /\ [][NextExtract]_vars

\* -------------------------------------------------------------- main loop
FileNames == <<"a.xml", "b.xml", "c.xml", "d.xml">>

\* The member names of an archive: pairwise distinct, or one name throughout
Namelists ==
    {[k \in 1..n |-> IF dup THEN FileNames[1] ELSE FileNames[k]] :
        n \in 0..MaxMembers, dup \in BOOLEAN}

\* What an archive member can hold: a well-formed document or not
MainDocs ==
    {Document(HeaderBase("text"), BodyProfile(<<0, 0, 0, 0>>, "person", "new", "absent", 1, "person")),
     Document(HeaderBase("text"), BodyProfile(<<0, 0, 0, 2>>, "same", "new", "absent", 0, "person")),
     Document(HeaderBase("absent"), BodyProfile(<<1, 0, 1, 0>>, "person", "absent", "absent", 2, "person")),
     Document(HeaderBase("text"), BodyProfile(<<0, 0, 0, 0>>, "person", "absent", "absent", 0, "person"))}

Init ==
    /\ pc = "loop"
    /\ xml_root = None
    /\ result = Ok(None)
    /\ nzips \in 0..MaxZips
    /\ zi = 0 /\ namelist = <<>> /\ i = 0 /\ data_tree = <<>>
    /\ flat = None /\ tmp = <<>> /\ csv_dir = {} /\ json_dir = {} /\ err = "none"

\* for zf_path in sorted(...): the next archive is opened, data_tree = []
OpenZip ==
    /\ pc = "loop"
    /\ zi < nzips
    /\ zi' = zi + 1
    /\ namelist' \in Namelists
    /\ i' = 0
    /\ data_tree' = <<>>
    /\ pc' = "members"
    /\ UNCHANGED <<xml_root, result, nzips, flat, tmp, csv_dir, json_dir, err>>

\* the inner loop has members left
MembersLeft == i < Len(namelist)

\* variant: the exports sit inside the inner loop
LoopOver_indented == i > 0

\* the exports follow the inner loop, at the indentation of the outer one
LoopOver == ~MembersLeft

\* ET.parse raises ParseError on a member that is not well-formed XML
ParseMember ==
    /\ pc = "members"
    /\ MembersLeft
    /\ pc' = "crashed"
    /\ err' = "ParseError"
    /\ UNCHANGED <<xml_root, result, nzips, zi, namelist, i, data_tree, flat, tmp,
                   csv_dir, json_dir>>

\* A name that occurs twice in namelist is opened as the same member both times
SameAsBefore(fname, tree) ==
    \A k \in 1..i : namelist[k] = fname => (tree.exc = "none" /\ tree.val = data_tree[k])

\* One round of the inner loop on a well-formed member: the composite record
\* is appended, or the exception of an extractor ends the script
ExtractMember ==
    /\ pc = "members"
    /\ MembersLeft
    /\ \E doc \in MainDocs :
         \E tree \in {return_tree(doc, namelist[i + 1])} :
            /\ SameAsBefore(namelist[i + 1], tree)
            /\ xml_root' = doc
            /\ IF tree.exc = "none"
               THEN /\ data_tree' = Append(data_tree, tree.val)
                    /\ i' = i + 1
                    /\ UNCHANGED <<pc, err>>
               ELSE /\ pc' = "crashed"
                    /\ err' = tree.exc
                    /\ UNCHANGED <<data_tree, i>>
    /\ UNCHANGED <<result, nzips, zi, namelist, flat, tmp, csv_dir, json_dir>>

\* export_to_csv(data_tree, year, part), once the inner loop is over
ExportCsv ==
    /\ pc = "members"
    /\ LoopOver
    /\ \E out \in {export_to_csv(data_tree)} :
          /\ data_tree' = out.tree
          /\ IF out.exc = "none"
             THEN /\ flat' = out.flat
                  /\ tmp' = Written(tmp, out.files)
                  /\ csv_dir' = csv_dir \cup {zi}
                  /\ pc' = "csv_done"
                  /\ UNCHANGED err
             ELSE /\ pc' = "crashed"
                  /\ err' = out.exc
                  /\ UNCHANGED <<flat, tmp, csv_dir>>
    /\ UNCHANGED <<xml_root, result, nzips, zi, namelist, i, json_dir>>

\* export_to_json(data_tree, year, part): json.dump keeps the nested tree
ExportJson ==
    /\ pc = "csv_done"
    /\ tmp' = Written(tmp, [f \in {"returns.json"} |-> data_tree])
    /\ json_dir' = json_dir \cup {zi}
    /\ flat' = None
    /\ pc' = "loop"
    /\ UNCHANGED <<xml_root, result, nzips, zi, namelist, i, data_tree, csv_dir, err>>

\* the outer loop is over
Finish ==
    /\ pc = "loop"
    /\ zi = nzips
    /\ pc' = "done"
    /\ UNCHANGED <<xml_root, result, mainvars>>

Next == OpenZip \/ ParseMember \/ ExtractMember \/ ExportCsv \/ ExportJson \/ Finish

Spec == Init /\ [][Next]_vars

\* =================================================================== claims
Absent(root, steps) == Matches(root, Deep(steps)) = <<>>
Present(root, steps) == Matches(root, Deep(steps)) # <<>>
FirstText(root, steps) == Matches(root, Deep(steps))[1].text
AllHaveText(elems) == \A k \in 1..Len(elems) : elems[k].text # None
JoinedTexts(elems) == Str(JoinSp([k \in 1..Len(elems) |-> elems[k].text[1]]))

ReturnParsed == pc = "parse_return"
OfficersParsed == pc = "parse_officers"

HasText(root, steps) == Present(root, steps) /\ FirstText(root, steps) # None

\* C1: a document with a legacy ReturnType element (carrying a text) and no
\* ReturnTypeCd element gets return_type equal to the legacy element's text; a
\* document with a TaxYear element and no TaxYr element gets tax_year equal to
\* TaxYear's text.
C1_LegacyCandidateUsed ==
    ReturnParsed =>
      /\ (Absent(xml_root, <<"ReturnTypeCd">>) /\ HasText(xml_root, <<"ReturnType">>))
            => /\ result.exc = "none"
               /\ result.val.return_type = FirstText(xml_root, <<"ReturnType">>)
      /\ (Absent(xml_root, <<"TaxYr">>) /\ HasText(xml_root, <<"TaxYear">>))
            => /\ result.exc = "none"
               /\ result.val.tax_year = FirstText(xml_root, <<"TaxYear">>)

\* C2: a document with no repeated officer structure, no BusinessOfficerGrp and
\* no Officer element gets an empty list of officer records and no exception.
C2_MissingHeaderOfficerYieldsNoRecord ==
    (/\ OfficersParsed
     /\ ScanOfficers(xml_root) = <<>>
     /\ Absent(xml_root, <<"BusinessOfficerGrp">>)
     /\ Absent(xml_root, <<"Officer">>))
    => (result.exc = "none" /\ result.val = <<>>)

\* C4: a document lacking every candidate element of a coalesced field gets
\* None (not an empty string) in that field, and parse_return does not raise.
C4_AbsentFieldIsNone ==
    ReturnParsed =>
      /\ (Absent(xml_root, <<"ReturnTypeCd">>) /\ Absent(xml_root, <<"ReturnType">>))
            => (result.exc = "none" /\ result.val.return_type = None)
      /\ (Absent(xml_root, <<"Filer", "BusinessName", "*">>)
          /\ Absent(xml_root, <<"Filer", "Name", "*">>))
            => (result.exc = "none" /\ result.val.business_name = None)
      /\ (Absent(xml_root, <<"PreparerFirmName", "*">>)
          /\ Absent(xml_root, <<"PreparerFirmBusinessName", "*">>))
            => (result.exc = "none" /\ result.val.preparer_firm = None)
      /\ (Absent(xml_root, <<"PreparerUSAddress", "*">>)
          /\ Absent(xml_root, <<"PreparerFirmUSAddress", "*">>))
            => (result.exc = "none" /\ result.val.preparer_address = None)
      /\ (Absent(xml_root, <<"TaxYr">>) /\ Absent(xml_root, <<"TaxYear">>))
            => (result.exc = "none" /\ result.val.tax_year = None)

C6_JoinedHeaderFields ==
    ReturnParsed =>
      LET bn == Matches(xml_root, Deep(<<"Filer", "BusinessName", "*">>))
          nm == Matches(xml_root, Deep(<<"Filer", "Name", "*">>))
          pfn == Matches(xml_root, Deep(<<"PreparerFirmName", "*">>))
          pfbn == Matches(xml_root, Deep(<<"PreparerFirmBusinessName", "*">>))
      IN /\ (Len(bn) > 1 /\ AllHaveText(bn))
               => (result.exc = "none" /\ result.val.business_name = JoinedTexts(bn))
         /\ (bn = <<>> /\ Len(nm) > 1 /\ AllHaveText(nm))
               => (result.exc = "none" /\ result.val.business_name = JoinedTexts(nm))
         /\ (Len(pfn) > 1 /\ AllHaveText(pfn))
               => (result.exc = "none" /\ result.val.preparer_firm = JoinedTexts(pfn))
         /\ (pfn = <<>> /\ Len(pfbn) > 1 /\ AllHaveText(pfbn))
               => (result.exc = "none" /\ result.val.preparer_firm = JoinedTexts(pfbn))

CsvDone == pc = "csv_done"

DistinctNames(tree) ==
    \A m \in 1..Len(tree), n \in 1..Len(tree) : m # n => tree[m].src_fname # tree[n].src_fname

\* Number of nested records (key: officers or grants) of the composite
\* records before the n-th
RECURSIVE Offset(_, _, _)
Offset(tree, key, n) ==
    IF n <= 1 THEN 0 ELSE Offset(tree, key, n - 1) + Len(tree[n - 1][key])

\* list holds the nested records of tree, document after document, in order
IsConcatOf(list, tree, key) ==
    /\ Len(list) = Offset(tree, key, Len(tree) + 1)
    /\ \A n \in 1..Len(tree) : \A j \in 1..Len(tree[n][key]) :
          list[Offset(tree, key, n) + j] = tree[n][key][j]

\* every record of list carries the src_fname of exactly one row of returns,
\* the row of the document the record was extracted from
KeyedToOwner(list, tree, key, returns) ==
    /\ \A p \in 1..Len(list) :
          Cardinality({n \in 1..Len(returns) : returns[n].src_fname = list[p].src_fname}) = 1
    /\ \A n \in 1..Len(tree) : \A j \in 1..Len(tree[n][key]) :
          list[Offset(tree, key, n) + j].src_fname = returns[n].src_fname

\* C3: when the document identifiers of a batch are pairwise distinct, every
\* officer record and every grant record of the flattened collections carries
\* the src_fname of exactly one return record of the batch, the one of the
\* document it was extracted from.
C3_ReferentialIntegrity ==
    (CsvDone /\ DistinctNames(data_tree)) =>
       /\ \A n \in 1..Len(data_tree) : flat.returns[n].src_fname = Str(namelist[n])
       /\ KeyedToOwner(flat.officers, data_tree, "officers", flat.returns)
       /\ KeyedToOwner(flat.grants, data_tree, "grants", flat.returns)

\* C3 witness: a flattened batch of two documents with distinct names, with
\* officers of both and grants
C3_Witness ==
    /\ CsvDone
    /\ Len(data_tree) = 2
    /\ DistinctNames(data_tree)
    /\ Len(flat.officers) >= 3
    /\ Len(flat.grants) >= 1
    /\ flat.officers[1].src_fname # flat.officers[Len(flat.officers)].src_fname

\* C7: the officer collection is the concatenation, document after document,
\* of the officers lists, the grant collection that of the grants lists, and
\* the return collection has one row per composite record, in the same order:
\* nothing is reordered, dropped or deduplicated.
C7_FlatteningKeepsOrderAndCount ==
    CsvDone =>
       /\ Len(flat.returns) = Len(data_tree)
       /\ \A n \in 1..Len(data_tree) :
             /\ DOMAIN flat.returns[n] = DOMAIN data_tree[n] \ {"officers", "grants"}
             /\ \A k \in DOMAIN flat.returns[n] : flat.returns[n][k] = data_tree[n][k]
       /\ IsConcatOf(flat.officers, data_tree, "officers")
       /\ IsConcatOf(flat.grants, data_tree, "grants")

\* C7 witness: a flattened batch in which the same officer record occurs
\* twice and which has two grants in extraction order
C7_Witness ==
    /\ CsvDone
    /\ Len(data_tree) = 2
    /\ \E p \in 1..Len(flat.officers), q \in 1..Len(flat.officers) :
          p # q /\ flat.officers[p] = flat.officers[q]
    /\ Len(flat.grants) = 2
    /\ flat.grants[1].recipient_name = Str("Recipient 1")
    /\ flat.grants[2].recipient_name = Str("Recipient 2")

\* C8: flattening the composite sequence a second time, as the first call left
\* it, builds the same return, officer and grant collections.
C8_FlatteningIdempotent ==
    CsvDone => export_to_csv(data_tree).flat = flat

\* C8 witness: a flattened batch with officer and grant records, all stamped
\* by the first call
C8_Witness ==
    /\ CsvDone
    /\ flat.officers # <<>>
    /\ flat.grants # <<>>
    /\ \A n \in 1..Len(data_tree) : \A j \in 1..Len(data_tree[n].officers) :
          "src_fname" \in DOMAIN data_tree[n].officers[j]

\* C9: export_to_csv leaves data_tree unchanged: afterwards each nested
\* officer record has exactly the fields name, title, address, each nested
\* grant record exactly recipient_name, recipient_address, purpose, amount.
C9_ExportLeavesTreeUnchanged ==
    [][(pc = "members" /\ pc' = "csv_done") =>
          /\ data_tree' = data_tree
          /\ \A n \in 1..Len(data_tree') :
                /\ \A j \in 1..Len(data_tree'[n].officers) :
                      DOMAIN data_tree'[n].officers[j] = {"name", "title", "address"}
                /\ \A j \in 1..Len(data_tree'[n].grants) :
                      DOMAIN data_tree'[n].grants[j] =
                         {"recipient_name", "recipient_address", "purpose", "amount"}]_vars

\* the composite records of the first n members, one each, in order
BatchOf(n) ==
    /\ Len(data_tree) = n
    /\ \A k \in 1..n : data_tree[k].src_fname = Str(namelist[k])

\* C10: the batch of an archive starts empty and grows by one composite record
\* per member; the archive is exported only after every member has been
\* extracted, with exactly one composite record per member; when parsing or
\* extraction raises, nothing is exported for the archive.
C10_AllOrNothingExport ==
    /\ (pc = "members" /\ i = 0) => data_tree = <<>>
    /\ pc = "members" => (i <= Len(namelist) /\ BatchOf(i))
    /\ (zi \in csv_dir \/ zi \in json_dir \/ pc = "csv_done")
          => /\ i = Len(namelist)
             /\ BatchOf(Len(namelist))
             /\ Len(tmp["returns.csv"]) = Len(namelist)
    /\ zi \in json_dir => (zi \in csv_dir /\ Len(tmp["returns.json"]) = Len(namelist))
    /\ (pc = "crashed" /\ err \in {"ParseError", "TypeError", "AttributeError"})
          => (zi \notin csv_dir /\ zi \notin json_dir)
    /\ csv_dir \subseteq 1..zi
    /\ json_dir \subseteq csv_dir

\* C10 witness: the second archive fails on its second member, after the first
\* archive was exported: the one record extracted is exported nowhere
C10_Witness ==
    /\ pc = "crashed"
    /\ err = "AttributeError"
    /\ zi = 2
    /\ i = 1
    /\ Len(data_tree) = 1
    /\ csv_dir = {1}
    /\ json_dir = {1}

====
